---------------------------- MODULE Spec2Model ----------------------------
(***************************************************************************)
(* Model of viz_demo/app.py: a Dash application that loads a scouting      *)
(* table from team-measures.feather, aggregates the cube tasks per         *)
(* (team, match, phase), and serves a histogram callback that filters or   *)
(* re-aggregates that summary by the selected phase.                       *)
(*                                                                         *)
(* Strings are sequences of code points, so that str.startswith,           *)
(* str.lower, string equality and the ordering used by groupby's sort are  *)
(* computed rather than assumed.  A DataFrame is a record                  *)
(*   [columns |-> sequence of column names, rows |-> sequence of records]. *)
(***************************************************************************)
EXTENDS Integers, Sequences, FiniteSets, TLC

(***************************************************************************)
(* Bounds of the model.                                                    *)
(***************************************************************************)
MaxRows == 2        \* rows of the raw tables enumerated in SpecFn
NumThreads == 2     \* request threads of the web server in Spec

(***************************************************************************)
(* String literals ("auto" etc.), as code points.                          *)
(***************************************************************************)
str_cube == <<99, 117, 98, 101>>                      \* "cube"
str_auto == <<97, 117, 116, 111>>                     \* "auto"
str_tele == <<116, 101, 108, 101>>                    \* "tele"
str_All == <<65, 108, 108>>                           \* "All"
str_Auto == <<65, 117, 116, 111>>                     \* "Auto"
str_Tele == <<84, 101, 108, 101>>                     \* "Tele"
str_AUTO == <<65, 85, 84, 79>>                        \* "AUTO"
str_TELE == <<84, 69, 76, 69>>                        \* "TELE"
str_empty == <<>>                                     \* ""
str_Au == <<65, 117>>                                 \* "Au"
str_cube_auto_high ==                                 \* "cube_auto_high"
    <<99, 117, 98, 101, 95, 97, 117, 116, 111, 95, 104, 105, 103, 104>>
str_cone_auto_high ==                                 \* "cone_auto_high"
    <<99, 111, 110, 101, 95, 97, 117, 116, 111, 95, 104, 105, 103, 104>>

(***************************************************************************)
(* str methods and comparisons.                                            *)
(***************************************************************************)
\* variant: only the first character of the prefix is compared
StartsWithFirstChar(s, prefix) ==
    prefix = <<>> \/ (Len(s) >= 1 /\ s[1] = prefix[1])

\* str.startswith(prefix)
StartsWith(s, prefix) ==
    /\ Len(s) >= Len(prefix)
    /\ \A i \in 1..Len(prefix) : s[i] = prefix[i]

\* str.lower() on one code point (ASCII range)
LowerChar(c) == IF c \in 65..90 THEN c + 32 ELSE c

\* variant: the string is left as it is
LowerOmitted(s) == s

\* str.lower()
Lower(s) == [i \in 1..Len(s) |-> LowerChar(s[i])]

\* s < t for strings: lexicographic by code point
StrLess(s, t) ==
    \E i \in 1..(Len(t)) :
        /\ \A j \in 1..(i - 1) : j <= Len(s) /\ s[j] = t[j]
        /\ \/ i = Len(s) + 1
           \/ i <= Len(s) /\ s[i] < t[i]

(***************************************************************************)
(* DataFrame operations.                                                   *)
(***************************************************************************)
Range(s) == {s[i] : i \in 1..Len(s)}

\* a < b for two values of column col ("phase" holds strings, the rest ints)
ValLess(col, a, b) == IF col = "phase" THEN StrLess(a, b) ELSE a < b

\* the group key of a row: its values in the columns `by`
KeyOf(row, by) == [i \in 1..Len(by) |-> row[by[i]]]

\* k1 < k2 for group keys: lexicographic over the columns `by`
KeyLess(by, k1, k2) ==
    \E i \in 1..Len(by) :
        /\ \A j \in 1..(i - 1) : k1[j] = k2[j]
        /\ ValLess(by[i], k1[i], k2[i])

\* the keys of a set in ascending order (groupby's sort=True default)
RECURSIVE SortKeys(_, _)
SortKeys(by, keys) ==
    IF keys = {} THEN <<>>
    ELSE LET least == CHOOSE k \in keys :
                          \A j \in keys \ {k} : KeyLess(by, k, j)
         IN  <<least>> \o SortKeys(by, keys \ {least})

\* the "sum" aggregation of column col over a sequence of rows
RECURSIVE SumCol(_, _)
SumCol(rows, col) ==
    IF rows = <<>> THEN 0
    ELSE Head(rows)[col] + SumCol(Tail(rows), col)

\* the rows at the positions where the boolean mask is TRUE, in order
RECURSIVE Masked(_, _)
Masked(rows, mask) ==
    IF rows = <<>> THEN <<>>
    ELSE (IF Head(mask) THEN <<Head(rows)>> ELSE <<>>)
             \o Masked(Tail(rows), Tail(mask))

\* df.loc[mask, :] for a boolean mask with one entry per row
Loc(df, mask) == [columns |-> df.columns, rows |-> Masked(df.rows, mask)]

\* variant: one output row per input row, the groups are not merged
GroupBySumUnmerged(df, by, col) ==
    [columns |-> by \o <<col>>,
     rows |-> [n \in 1..Len(df.rows) |->
                 [c \in Range(by) \cup {col} |-> df.rows[n][c]]]]

\* df.groupby(by, as_index=False).agg({col: "sum"}), the key columns holding
\* plain values (no missing value, no categorical dtype): one row per key
\* that occurs, in ascending key order
GroupBySum(df, by, col) ==
    LET keys == {KeyOf(df.rows[i], by) : i \in 1..Len(df.rows)}
        sorted == SortKeys(by, keys)
        Member(k) == LET InGroup(r) == KeyOf(r, by) = k
                     IN  SelectSeq(df.rows, InGroup)
        OutRow(k) == [c \in Range(by) \cup {col} |->
                        IF c = col THEN SumCol(Member(k), col)
                        ELSE k[CHOOSE i \in 1..Len(by) : by[i] = c]]
    IN  [columns |-> by \o <<col>>,
         rows |-> [n \in 1..Len(sorted) |-> OutRow(sorted[n])]]

(***************************************************************************)
(* The functions of app.py.                                                *)
(***************************************************************************)
\* variant: the groups whose sum is 0 are dropped
get_cube_measures_positive(measures) ==
    LET mask == [i \in DOMAIN measures.rows |->
                   StartsWith(measures.rows[i].task, str_cube)]
        sums == GroupBySum(Loc(measures, mask), <<"team", "match", "phase">>, "hit")
    IN  Loc(sums, [i \in DOMAIN sums.rows |-> sums.rows[i].hit > 0])

\* get_cube_measures(measures): filter to the cube tasks, group, sum hit
get_cube_measures(measures) ==
    LET mask == [i \in DOMAIN measures.rows |->
                   StartsWith(measures.rows[i].task, str_cube)]
    IN  GroupBySum(Loc(measures, mask), <<"team", "match", "phase">>, "hit")

\* variant: the "All" branch keeps phase among the grouping columns
PhaseFilterKeepsPhase(cube_measures, phase) ==
    IF Lower(phase) \in {str_auto, str_tele}
    THEN Loc(cube_measures, [i \in DOMAIN cube_measures.rows |->
                                cube_measures.rows[i].phase = Lower(phase)])
    ELSE GroupBySum(cube_measures, <<"team", "match", "phase">>, "hit")

\* variant: the rows are compared with the selector as received
PhaseFilterAsReceived(cube_measures, phase) ==
    IF Lower(phase) \in {str_auto, str_tele}
    THEN Loc(cube_measures, [i \in DOMAIN cube_measures.rows |->
                                cube_measures.rows[i].phase = phase])
    ELSE GroupBySum(cube_measures, <<"team", "match">>, "hit")

\* the filtering section of _build_cube_histogram
PhaseFilter(cube_measures, phase) ==
    IF Lower(phase) \in {str_auto, str_tele}
    THEN Loc(cube_measures, [i \in DOMAIN cube_measures.rows |->
                                cube_measures.rows[i].phase = Lower(phase)])
    ELSE GroupBySum(cube_measures, <<"team", "match">>, "hit")

\* _build_cube_histogram(cube_measures, phase): the px.histogram figure
build_cube_histogram(cube_measures, phase) ==
    [data_frame |-> PhaseFilter(cube_measures, phase),
     x |-> "hit",
     title |-> <<"Histogram of Cubes Placed Per Match: ", phase>>]

\* the pandas dtype of a column of the measures table
Dtype(col) == IF col \in {"team", "match", "hit"} THEN "int64" ELSE "object"

\* _build_measures_table(measures): the DataTable widget
build_measures_table(measures) ==
    [data |-> measures.rows,
     columns |-> [i \in 1..Len(measures.columns) |->
                    [name |-> measures.columns[i],
                     id |-> measures.columns[i],
                     type |-> IF Dtype(measures.columns[i]) = "int64"
                              THEN "numeric" ELSE "any"]],
     page_size |-> 15,
     sort_action |-> "native",
     filter_action |-> "native"]

(***************************************************************************)
(* Inputs: the contents of team-measures.feather and the selector values.  *)
(***************************************************************************)
Teams == {1, 2}
Matches == {1, 2}
Phases == {str_auto, str_tele}
Tasks == {str_cube_auto_high, str_cone_auto_high}
Hits == {0, 1}

MeasureColumns == <<"team", "match", "phase", "task", "hit">>

MeasureRows == [team : Teams, match : Matches, phase : Phases,
                task : Tasks, hit : Hits]

\* every measures table of at most n rows
Tables(n) ==
    {[columns |-> MeasureColumns, rows |-> rs] :
        rs \in UNION {[1..k -> MeasureRows] : k \in 0..n}}

Row(t, m, p, k, h) == [team |-> t, match |-> m, phase |-> p, task |-> k, hit |-> h]

\* raw tables of the documented scenarios, and a few more
SampleFiles ==
    {[columns |-> MeasureColumns, rows |-> <<>>],
     [columns |-> MeasureColumns,
      rows |-> <<Row(1, 1, str_tele, str_cone_auto_high, 2)>>],
     [columns |-> MeasureColumns,
      rows |-> <<Row(1, 1, str_auto, str_cube_auto_high, 1),
                 Row(2, 2, str_auto, str_cube_auto_high, 0),
                 Row(1, 1, str_auto, str_cube_auto_high, 2),
                 Row(1, 1, str_tele, str_cube_auto_high, 1)>>],
     [columns |-> MeasureColumns,
      rows |-> <<Row(1, 1, str_auto, str_cube_auto_high, 3),
                 Row(1, 1, str_tele, str_cube_auto_high, 2),
                 Row(2, 1, str_auto, str_cube_auto_high, 1)>>],
     [columns |-> MeasureColumns,
      rows |-> <<Row(1, 1, str_auto, str_cube_auto_high, 1),
                 Row(1, 1, str_auto, str_cone_auto_high, 5)>>],
     [columns |-> MeasureColumns,
      rows |-> <<Row(2, 1, str_tele, str_cube_auto_high, 2),
                 Row(1, 2, str_Auto, str_cube_auto_high, 1),
                 Row(1, 2, str_auto, str_cube_auto_high, 0),
                 Row(1, 1, str_tele, str_cone_auto_high, 4)>>]}

\* the file is missing or unreadable
Missing == [missing |-> TRUE]

\* a Python value received as the callback's argument: a str, or None
Str(chars) == [str |-> chars]
None == [none |-> TRUE]
IsStr(v) == "str" \in DOMAIN v

\* the values the radio buttons, or any other client, may send
Selectors == {Str(s) : s \in {str_All, str_Auto, str_Tele, str_auto, str_AUTO,
                              str_TELE, str_empty, str_Au}} \cup {None}

(***************************************************************************)
(* State.                                                                  *)
(***************************************************************************)
VARIABLES
    file,           \* contents of team-measures.feather, or Missing
    pc,             \* position of the module-level code
    tmeasures,      \* global tmeasures
    cube_measures,  \* global cube_measures
    app,            \* global app: the Dash object, its layout, whether it runs
    req,            \* per request thread: the frame of update_cube_hist
    loads,          \* number of calls of load_team_measures
    aggs            \* number of calls of get_cube_measures

vars == <<file, pc, tmeasures, cube_measures, app, req, loads, aggs>>

\* a name that is not bound yet
Unbound == [unbound |-> TRUE]

Idle == [st |-> "idle"]

InitState(files, threads) ==
    /\ file \in files
    /\ pc = "load"
    /\ tmeasures = Unbound
    /\ cube_measures = Unbound
    /\ app = Unbound
    /\ req = [t \in threads |-> Idle]
    /\ loads = 0
    /\ aggs = 0

\* the process with its request threads, on the sample files
Init == InitState(SampleFiles \cup {Missing}, 1..NumThreads)

\* one request at a time, on every raw table of at most MaxRows rows
InitFn == InitState(Tables(MaxRows) \cup SampleFiles \cup {Missing}, {1})

(***************************************************************************)
(* Module-level code, in program order.                                    *)
(***************************************************************************)
\* tmeasures = load_team_measures(), the file being readable
LoadTeamMeasures ==
    /\ pc = "load"
    /\ file # Missing
    /\ tmeasures' = file
    /\ loads' = loads + 1
    /\ pc' = "aggregate"
    /\ UNCHANGED <<file, cube_measures, app, req, aggs>>

\* variant: the exception is caught and an empty table stands in
LoadFailsCaught ==
    /\ pc = "load"
    /\ file = Missing
    /\ tmeasures' = [columns |-> MeasureColumns, rows |-> <<>>]
    /\ loads' = loads + 1
    /\ pc' = "aggregate"
    /\ UNCHANGED <<file, cube_measures, app, req, aggs>>

\* tmeasures = load_team_measures(), pd.read_feather raising: the exception
\* is not caught, the module's execution ends
LoadFails ==
    /\ pc = "load"
    /\ file = Missing
    /\ loads' = loads + 1
    /\ pc' = "failed"
    /\ UNCHANGED <<file, tmeasures, cube_measures, app, req, aggs>>

\* cube_measures = get_cube_measures(tmeasures)
ComputeCubeMeasures ==
    /\ pc = "aggregate"
    /\ cube_measures' = get_cube_measures(tmeasures)
    /\ aggs' = aggs + 1
    /\ pc' = "create_app"
    /\ UNCHANGED <<file, tmeasures, app, req, loads>>

\* app = dash.Dash(__name__); server = app.server
CreateApp ==
    /\ pc = "create_app"
    /\ app' = [layout |-> Unbound, running |-> FALSE]
    /\ pc' = "imported"
    /\ UNCHANGED <<file, tmeasures, cube_measures, req, loads, aggs>>

\* variant: the table is built from cube_measures
get_layout_summary ==
    /\ pc = "imported"
    /\ app' = [app EXCEPT !.layout =
                 [graph |-> [id |-> "cube_hist"],
                  radio |-> [id |-> "phase-control",
                             options |-> <<str_All, str_Auto, str_Tele>>,
                             value |-> str_All],
                  table |-> build_measures_table(cube_measures)]]
    /\ pc' = "layout"
    /\ UNCHANGED <<file, tmeasures, cube_measures, req, loads, aggs>>

\* main(), once called by the entry point, calls get_layout():
\* app.layout = html.Div([...])
get_layout ==
    /\ pc = "imported"
    /\ app' = [app EXCEPT !.layout =
                 [graph |-> [id |-> "cube_hist"],
                  radio |-> [id |-> "phase-control",
                             options |-> <<str_All, str_Auto, str_Tele>>,
                             value |-> str_All],
                  table |-> build_measures_table(tmeasures)]]
    /\ pc' = "layout"
    /\ UNCHANGED <<file, tmeasures, cube_measures, req, loads, aggs>>

\* app.run(debug=True), the last statement of get_layout: requests are served
app_run ==
    /\ pc = "layout"
    /\ app' = [app EXCEPT !.running = TRUE]
    /\ pc' = "serving"
    /\ UNCHANGED <<file, tmeasures, cube_measures, req, loads, aggs>>

(***************************************************************************)
(* The callback, one frame per request thread.                             *)
(***************************************************************************)
\* variant: the summary is computed again from tmeasures at every call
update_cube_hist_recompute(t, phase) ==
    /\ pc = "serving"
    /\ req[t].st \in {"idle", "returned", "raised"}
    /\ cube_measures' = get_cube_measures(tmeasures)
    /\ aggs' = aggs + 1
    /\ req' = [req EXCEPT ![t] = [st |-> "called", phase |-> phase,
                                  cube_measures |-> cube_measures']]
    /\ UNCHANGED <<file, pc, tmeasures, app, loads>>

\* Dash calls update_cube_hist(phase); the global cube_measures is read and
\* passed to _build_cube_histogram, where it is bound to the parameter
update_cube_hist(t, phase) ==
    /\ pc = "serving"
    /\ req[t].st \in {"idle", "returned", "raised"}
    /\ req' = [req EXCEPT ![t] = [st |-> "called", phase |-> phase,
                                  cube_measures |-> cube_measures]]
    /\ UNCHANGED <<file, pc, tmeasures, cube_measures, app, loads, aggs>>

\* variant: cube_measures is declared global in _build_cube_histogram, so
\* the filtered table replaces the shared one
return_cube_hist_global(t) ==
    /\ req[t].st = "called"
    /\ IsStr(req[t].phase)
    /\ cube_measures' = PhaseFilter(cube_measures, req[t].phase.str)
    /\ req' = [req EXCEPT ![t] =
                 [st |-> "returned", phase |-> req[t].phase,
                  fig |-> build_cube_histogram(cube_measures,
                                               req[t].phase.str)]]
    /\ UNCHANGED <<file, pc, tmeasures, app, loads, aggs>>

\* the body of _build_cube_histogram runs on its parameters and the figure
\* is returned to Dash
return_cube_hist(t) ==
    /\ req[t].st = "called"
    /\ IsStr(req[t].phase)
    /\ req' = [req EXCEPT ![t] =
                 [st |-> "returned", phase |-> req[t].phase,
                  fig |-> build_cube_histogram(req[t].cube_measures,
                                               req[t].phase.str)]]
    /\ UNCHANGED <<file, pc, tmeasures, cube_measures, app, loads, aggs>>

\* phase.lower() on a value that is no str raises AttributeError; the
\* request fails and the thread serves the next one
raise_cube_hist(t) ==
    /\ req[t].st = "called"
    /\ ~IsStr(req[t].phase)
    /\ req' = [req EXCEPT ![t] = [st |-> "raised", phase |-> req[t].phase]]
    /\ UNCHANGED <<file, pc, tmeasures, cube_measures, app, loads, aggs>>

Next ==
    \/ LoadTeamMeasures
    \/ LoadFails
    \/ ComputeCubeMeasures
    \/ CreateApp
    \/ get_layout
    \/ app_run
    \/ \E t \in DOMAIN req, phase \in Selectors : update_cube_hist(t, phase)
    \/ \E t \in DOMAIN req : return_cube_hist(t)
    \/ \E t \in DOMAIN req : raise_cube_hist(t)

Spec == Init /\ [][Next]_vars

SpecFn == InitFn /\ [][Next]_vars

(***************************************************************************)
(* Vocabulary of the properties, written independently of the operators    *)
(* above.                                                                  *)
(***************************************************************************)
Bound(x) == "columns" \in DOMAIN x

\* the task begins with the four characters c, u, b, e
CubeTask(task) == Len(task) >= 4 /\ SubSeq(task, 1, 4) = <<99, 117, 98, 101>>

\* s is the lower-case word w up to letter case
SameWordAnyCase(s, w) ==
    /\ Len(s) = Len(w)
    /\ \A i \in 1..Len(w) : s[i] = w[i] \/ (s[i] \in 65..90 /\ s[i] + 32 = w[i])

\* the sum of hit over the rows of a table at the positions idx
RECURSIVE HitAt(_, _)
HitAt(rows, idx) ==
    IF idx = {} THEN 0
    ELSE LET i == CHOOSE i \in idx : TRUE
         IN  rows[i].hit + HitAt(rows, idx \ {i})

TotalHit(rows) == HitAt(rows, DOMAIN rows)

\* positions of the cube rows of the raw table
CubeIdx == {i \in DOMAIN tmeasures.rows : CubeTask(tmeasures.rows[i].task)}

\* positions of the cube rows of the raw table with the (team, match, phase) of r
CubeIdxOf(r) ==
    {i \in CubeIdx : /\ tmeasures.rows[i].team = r.team
                     /\ tmeasures.rows[i].match = r.match
                     /\ tmeasures.rows[i].phase = r.phase}

\* positions of the summary rows with the (team, match) of r
PairIdxOf(r) ==
    {i \in DOMAIN cube_measures.rows : /\ cube_measures.rows[i].team = r.team
                                       /\ cube_measures.rows[i].match = r.match}

TMP(r) == <<r.team, r.match, r.phase>>

(***************************************************************************)
(* C1: the summary computed by get_cube_measures has the columns team,     *)
(* match, phase, hit; the hit of each of its rows is the sum of hit over   *)
(* the raw rows of the same (team, match, phase) whose task starts with    *)
(* "cube"; and its total hit is the total hit of the cube rows.  Stated of  *)
(* the state that follows the call.                                        *)
(***************************************************************************)
C1_CubeSums ==
    pc = "create_app" =>
        /\ cube_measures.columns = <<"team", "match", "phase", "hit">>
        /\ \A i \in DOMAIN cube_measures.rows :
              LET r == cube_measures.rows[i]
              IN  /\ DOMAIN r = {"team", "match", "phase", "hit"}
                  /\ r.hit = HitAt(tmeasures.rows, CubeIdxOf(r))
        /\ TotalHit(cube_measures.rows) = HitAt(tmeasures.rows, CubeIdx)

\* get_cube_measures has just run on a table where a cube row and a
\* non-cube row with positive hit share a tuple
C1_Witness ==
    /\ pc = "create_app"
    /\ \E i \in CubeIdx, j \in DOMAIN tmeasures.rows \ CubeIdx :
          /\ TMP(tmeasures.rows[i]) = TMP(tmeasures.rows[j])
          /\ tmeasures.rows[i].hit > 0
          /\ tmeasures.rows[j].hit > 0

(***************************************************************************)
(* C2: no two rows of the summary table have the same (team, match,        *)
(* phase), right after get_cube_measures and after any view-filter         *)
(* invocations.                                                            *)
(***************************************************************************)
C2_UniqueTuples ==
    Bound(cube_measures) =>
        \A i, j \in DOMAIN cube_measures.rows :
            i # j => TMP(cube_measures.rows[i]) # TMP(cube_measures.rows[j])

\* two cube rows of the raw table share a tuple, the summary has several
\* rows and a view-filter invocation has returned
C2_Witness ==
    /\ Bound(cube_measures)
    /\ Len(cube_measures.rows) >= 2
    /\ \E i, j \in CubeIdx :
          i # j /\ TMP(tmeasures.rows[i]) = TMP(tmeasures.rows[j])
    /\ \E t \in DOMAIN req : req[t].st = "returned"

(***************************************************************************)
(* C10: a (team, match, phase) tuple is in the summary exactly if the raw  *)
(* table has a cube row with it; a tuple with only non-cube rows is        *)
(* absent, a tuple whose cube rows all have hit 0 is present with hit 0.   *)
(* Stated of the state that follows the call of get_cube_measures.         *)
(***************************************************************************)
C10_TuplesPresent ==
    pc = "create_app" =>
        /\ {TMP(cube_measures.rows[i]) : i \in DOMAIN cube_measures.rows}
             = {TMP(tmeasures.rows[i]) : i \in CubeIdx}
        /\ \A i \in CubeIdx :
              (\A j \in CubeIdxOf(tmeasures.rows[i]) : tmeasures.rows[j].hit = 0)
                  => \E n \in DOMAIN cube_measures.rows :
                        /\ TMP(cube_measures.rows[n]) = TMP(tmeasures.rows[i])
                        /\ cube_measures.rows[n].hit = 0

\* get_cube_measures has just run on a table with a tuple of non-cube rows
\* only and a tuple whose cube rows all have hit 0
C10_Witness ==
    /\ pc = "create_app"
    /\ \E j \in DOMAIN tmeasures.rows \ CubeIdx :
          CubeIdxOf(tmeasures.rows[j]) = {}
    /\ \E i \in CubeIdx :
          \A j \in CubeIdxOf(tmeasures.rows[i]) : tmeasures.rows[j].hit = 0

(***************************************************************************)
(* C3: for a selector that is "auto" or "tele" up to letter case, the view *)
(* filter returns exactly the summary rows whose phase is the lower-cased  *)
(* selector, columns and hit unchanged; selectors differing only in letter *)
(* case give the same table.                                               *)
(***************************************************************************)
C3_PhaseRows ==
    \A t \in DOMAIN req, w \in {str_auto, str_tele} :
        (req[t].st = "returned" /\ SameWordAnyCase(req[t].phase.str, w)) =>
            LET df == req[t].fig.data_frame
                HasPhase(r) == r.phase = w
            IN  /\ df.columns = <<"team", "match", "phase", "hit">>
                /\ df.rows = SelectSeq(cube_measures.rows, HasPhase)
                /\ \A s \in Selectors :
                      (IsStr(s) /\ SameWordAnyCase(s.str, w)) =>
                          PhaseFilter(cube_measures, s.str) = df

\* a selector with capital letters has returned some but not all of the
\* rows of the summary
C3_Witness ==
    \E t \in DOMAIN req :
        /\ req[t].st = "returned"
        /\ req[t].phase \in {Str(str_Auto), Str(str_AUTO), Str(str_Tele), Str(str_TELE)}
        /\ Len(req[t].fig.data_frame.rows) >= 1
        /\ Len(req[t].fig.data_frame.rows) < Len(cube_measures.rows)

(***************************************************************************)
(* C4: for a selector that is neither "auto" nor "tele" up to letter case  *)
(* the call raises no error and returns one row per (team, match) of the   *)
(* summary, with columns team, match, hit and hit the sum over the phases. *)
(***************************************************************************)
C4_AllRows ==
    \A t \in DOMAIN req :
        LET Other == /\ req[t].st # "idle"
                     /\ IsStr(req[t].phase)
                     /\ ~SameWordAnyCase(req[t].phase.str, str_auto)
                     /\ ~SameWordAnyCase(req[t].phase.str, str_tele)
        IN  /\ Other => req[t].st # "raised"
            /\ (Other /\ req[t].st = "returned") =>
                  LET df == req[t].fig.data_frame
                  IN  /\ df.columns = <<"team", "match", "hit">>
                      /\ \A i \in DOMAIN df.rows :
                            /\ DOMAIN df.rows[i] = {"team", "match", "hit"}
                            /\ df.rows[i].hit =
                                 HitAt(cube_measures.rows, PairIdxOf(df.rows[i]))
                      /\ \A i, j \in DOMAIN df.rows :
                            i # j => \/ df.rows[i].team # df.rows[j].team
                                     \/ df.rows[i].match # df.rows[j].match
                      /\ {<<df.rows[i].team, df.rows[i].match>> : i \in DOMAIN df.rows}
                           = {<<cube_measures.rows[i].team, cube_measures.rows[i].match>> :
                                 i \in DOMAIN cube_measures.rows}

\* an unrecognized selector has returned a row that adds up two phases
C4_Witness ==
    \E t \in DOMAIN req :
        /\ req[t].st = "returned"
        /\ req[t].phase \in {Str(str_empty), Str(str_Au)}
        /\ \E i \in DOMAIN req[t].fig.data_frame.rows :
              /\ Cardinality(PairIdxOf(req[t].fig.data_frame.rows[i])) >= 2
              /\ req[t].fig.data_frame.rows[i].hit >= 2

\* every phase of the summary is "auto" or "tele"
OnlyAutoTele ==
    \A i \in DOMAIN cube_measures.rows :
        cube_measures.rows[i].phase \in {<<97, 117, 116, 111>>, <<116, 101, 108, 101>>}

(***************************************************************************)
(* C5: when every phase of the summary is "auto" or "tele", the total hit  *)
(* of the "All" result is the total of the "Auto" result plus the total of *)
(* the "Tele" result.                                                      *)
(***************************************************************************)
C5_AllIsAutoPlusTele ==
    \A t \in DOMAIN req :
        (req[t].st = "returned" /\ req[t].phase = Str(str_All) /\ OnlyAutoTele) =>
            TotalHit(req[t].fig.data_frame.rows)
                = TotalHit(PhaseFilter(cube_measures, str_Auto).rows)
                  + TotalHit(PhaseFilter(cube_measures, str_Tele).rows)

\* "All" has been served from a summary with auto and tele rows of
\* positive hit
C5_Witness ==
    /\ \E t \in DOMAIN req : req[t].st = "returned" /\ req[t].phase = Str(str_All)
    /\ OnlyAutoTele
    /\ \E i, j \in DOMAIN cube_measures.rows :
          /\ cube_measures.rows[i].phase = str_auto
          /\ cube_measures.rows[j].phase = str_tele
          /\ cube_measures.rows[i].hit > 0
          /\ cube_measures.rows[j].hit > 0

\* app.layout has been assigned
LayoutBuilt == pc \in {"layout", "serving"}

(***************************************************************************)
(* C6, as claimed: the rows handed to the table widget of the layout are   *)
(* the rows of the summary table.                                          *)
(***************************************************************************)
C6_TableFromSummary ==
    LayoutBuilt => app.layout.table.data = cube_measures.rows

(***************************************************************************)
(* C6, as the code has it: the rows handed to the table widget of the      *)
(* layout are the rows of the raw measures table, and the widget's columns *)
(* are that table's columns.                                               *)
(***************************************************************************)
C6_TableFromRaw ==
    LayoutBuilt =>
        /\ app.layout.table.data = tmeasures.rows
        /\ [i \in DOMAIN app.layout.table.columns |->
               app.layout.table.columns[i].id] = tmeasures.columns

\* the layout is built from a raw table and a summary that both have rows
C6_Witness ==
    /\ LayoutBuilt
    /\ Len(tmeasures.rows) > 0
    /\ Len(cube_measures.rows) > 0

(***************************************************************************)
(* C7: while requests are served, in any interleaving, no step changes the *)
(* global raw table or summary table, and two invocations with the same    *)
(* selector return the same figure.                                        *)
(***************************************************************************)
C7_Stateless ==
    /\ [][pc = "serving" =>
             (tmeasures' = tmeasures /\ cube_measures' = cube_measures)]_vars
    /\ [](\A t1, t2 \in DOMAIN req :
             (/\ req[t1].st = "returned"
              /\ req[t2].st = "returned"
              /\ req[t1].phase = req[t2].phase) => req[t1].fig = req[t2].fig)

\* two threads have returned for the same phase selector, each a proper
\* part of the summary
C7_Witness ==
    \E t1, t2 \in DOMAIN req :
        /\ t1 # t2
        /\ req[t1].st = "returned"
        /\ req[t2].st = "returned"
        /\ req[t1].phase = req[t2].phase
        /\ req[t1].phase = Str(str_Auto)
        /\ Len(req[t1].fig.data_frame.rows) >= 1
        /\ Len(req[t1].fig.data_frame.rows) < Len(cube_measures.rows)

(***************************************************************************)
(* C8: load_team_measures and get_cube_measures are each called at most    *)
(* once, and exactly once before any invocation of update_cube_hist; the   *)
(* invocations call neither.                                               *)
(***************************************************************************)
C8_ComputedOnce ==
    /\ loads <= 1
    /\ aggs <= 1
    /\ (pc = "serving" \/ \E t \in DOMAIN req : req[t].st # "idle") =>
          /\ loads = 1
          /\ aggs = 1
          /\ Bound(tmeasures)
          /\ Bound(cube_measures)

\* every thread has served a request
C8_Witness ==
    /\ \A t \in DOMAIN req : req[t].st = "returned"
    /\ loads = 1
    /\ aggs = 1

(***************************************************************************)
(* C9: when the input file cannot be read, the summary is never computed,  *)
(* the application and its layout are never created and no invocation of   *)
(* update_cube_hist is served.                                             *)
(***************************************************************************)
C9_LoadFailureIsFatal ==
    file = Missing =>
        /\ pc \in {"load", "failed"}
        /\ tmeasures = Unbound
        /\ cube_measures = Unbound
        /\ app = Unbound
        /\ aggs = 0
        /\ \A t \in DOMAIN req : req[t].st = "idle"

\* the load has failed
C9_Witness == file = Missing /\ pc = "failed" /\ loads = 1

=============================================================================
